---------------------------- MODULE Spec2Model ----------------------------
(***************************************************************************)
(* Model of support-api/main.py: the ticket handlers over the Firestore    *)
(* collection "support_tickets" and the two AI-analysis functions with     *)
(* their inline fence-stripping / JSON-decoding step.                      *)
(*                                                                         *)
(* Text is modelled character by character: a Python str is a sequence of  *)
(* one-character strings.  The Japanese literals of the source cannot be   *)
(* written in a TLA+ string; each is one element with an ASCII gloss, the  *)
(* source literal standing in the comment beside it.                       *)
(***************************************************************************)
EXTENDS Integers, Sequences, FiniteSets, TLC

(***************************************************************************)
(* Bounds of the model.                                                    *)
(***************************************************************************)
\* uuid4() values the model draws (ticket ids and response ids together).
MaxUuid == 3

\* Worker processes serving requests against the one shared store.
NumWorkers == 2

(***************************************************************************)
(* Python values.  Every value is [type, val]; val of a "str" is its       *)
(* character sequence, of a "list" the sequence of its items, of a "dict"  *)
(* the function from its keys (character sequences) to their values.       *)
(***************************************************************************)
PyStr(cs) == [type |-> "str", val |-> cs]

PyNum(cs) == [type |-> "num", val |-> cs]

PyList(items) == [type |-> "list", val |-> items]

PyDict(f) == [type |-> "dict", val |-> f]

PyLit(name) == [type |-> name, val |-> <<>>]

PyNone == PyLit("None")

EmptyDict == [k \in {} |-> PyNone]

K_summary ==
    <<"s", "u", "m", "m", "a", "r", "y">>

K_common_issues ==
    <<"c", "o", "m", "m", "o", "n", "_", "i", "s", "s", "u", "e", "s">>

K_insights ==
    <<"i", "n", "s", "i", "g", "h", "t", "s">>

K_recommendations ==
    <<"r", "e", "c", "o", "m", "m", "e", "n", "d", "a", "t", "i", "o", "n", "s">>

K_urgency ==
    <<"u", "r", "g", "e", "n", "c", "y">>

K_category_suggestion ==
    <<"c", "a", "t", "e", "g", "o", "r", "y", "_",
      "s", "u", "g", "g", "e", "s", "t", "i", "o", "n">>

K_response_suggestion ==
    <<"r", "e", "s", "p", "o", "n", "s", "e", "_",
      "s", "u", "g", "g", "e", "s", "t", "i", "o", "n">>

K_related_improvements ==
    <<"r", "e", "l", "a", "t", "e", "d", "_",
      "i", "m", "p", "r", "o", "v", "e", "m", "e", "n", "t", "s">>

\* The keys of the AnalysisResult the batch prompt asks for.
BatchKeys == {K_summary, K_common_issues, K_insights, K_recommendations}

\* The keys of the TicketInsight the single-ticket prompt asks for.
SingleKeys ==
    {K_urgency, K_category_suggestion, K_response_suggestion,
     K_related_improvements}

(***************************************************************************)
(* The cleaning step: two re.sub calls and str.strip().                    *)
(***************************************************************************)
\* Characters matched by \s and removed by str.strip().
Whitespace == {" ", "\n", "\t"}

\* The backtick character (U+0060), which a TLA+ string cannot hold.
Backtick == "BACKTICK"

Backticks == <<Backtick, Backtick, Backtick>>

FenceJson == Backticks \o <<"j", "s", "o", "n">>

\* Whether pat occurs in s at index i.
StartsWith(s, i, pat) ==
    /\ i + Len(pat) - 1 <= Len(s)
    /\ \A k \in 1..Len(pat) : s[i + k - 1] = pat[k]

\* The least index from i on whose character is not in chars, or Len(s) + 1.
FirstNotIn(s, i, chars) ==
    LET K == {k \in i..Len(s) : s[k] \notin chars}
    IN  IF K = {} THEN Len(s) + 1 ELSE CHOOSE k \in K : \A j \in K : k <= j

\* The least index from i on where pat occurs, or 0.
NextMatch(s, i, pat) ==
    LET K == {k \in i..Len(s) : StartsWith(s, k, pat)}
    IN  IF K = {} THEN 0 ELSE CHOOSE k \in K : \A j \in K : k <= j

\* The whitespace run from index i (the pattern \s*): the index after it.
SkipWs(s, i) == FirstNotIn(s, i, Whitespace)

\* The rest of the line from index i (the pattern .*$ under MULTILINE): the
\* index of the next newline, or Len(s) + 1.
EndOfLine(s, i) ==
    LET K == {k \in i..Len(s) : s[k] = "\n"}
    IN  IF K = {} THEN Len(s) + 1 ELSE CHOOSE k \in K : \A j \in K : k <= j

\* re.sub of the fence-json pattern (three backticks, json, \s*) by the empty
\* string, from index i on: the matches are taken leftmost first.
RECURSIVE SubFenceJson(_, _)
SubFenceJson(s, i) ==
    LET k == NextMatch(s, i, FenceJson)
    IN  IF k = 0 THEN SubSeq(s, i, Len(s))
        ELSE SubSeq(s, i, k - 1)
             \o SubFenceJson(s, SkipWs(s, k + Len(FenceJson)))

\* re.sub of the fence-line pattern (three backticks, .*$, MULTILINE) by the
\* empty string, from index i on.
RECURSIVE SubFenceLine(_, _)
SubFenceLine(s, i) ==
    LET k == NextMatch(s, i, Backticks)
    IN  IF k = 0 THEN SubSeq(s, i, Len(s))
        ELSE SubSeq(s, i, k - 1)
             \o SubFenceLine(s, EndOfLine(s, k + Len(Backticks)))

\* The index of the last character that is not whitespace (0 if none).
LastNonWs(s) ==
    LET K == {k \in 1..Len(s) : s[k] \notin Whitespace}
    IN  IF K = {} THEN 0 ELSE CHOOSE k \in K : \A j \in K : j <= k

\* str.strip()
Strip(s) == SubSeq(s, SkipWs(s, 1), LastNonWs(s))

\* clean_text as json.loads receives it.
CleanText(raw) == Strip(SubFenceLine(SubFenceJson(raw, 1), 1))

(***************************************************************************)
(* json.loads, for texts over the model's alphabet: objects, arrays,       *)
(* strings without escapes, unsigned integers, true / false / null.        *)
(* A parse result is [ok, val, next]: next is the index after the value.   *)
(***************************************************************************)
ParseFail == [ok |-> FALSE, val |-> PyNone, next |-> 0]

ParseOk(v, n) == [ok |-> TRUE, val |-> v, next |-> n]

Digits == {"0", "1", "2", "3", "4", "5", "6", "7", "8", "9"}

\* The index of the closing quote of a string whose body starts at i, or 0:
\* a control character or a backslash inside the string is refused.
ClosingQuote(s, i) ==
    LET k == FirstNotIn(s, i, {c \in {s[n] : n \in 1..Len(s)} :
                                    c \notin {"\"", "\n", "\t", "\\"}})
    IN  IF k <= Len(s) /\ s[k] = "\"" THEN k ELSE 0

\* A string starting at the quote at index i.
ParseString(s, i) ==
    LET j == ClosingQuote(s, i + 1)
    IN  IF j = 0 THEN ParseFail
        ELSE ParseOk(PyStr(SubSeq(s, i + 1, j - 1)), j + 1)

SkipDigits(s, i) == FirstNotIn(s, i, Digits)

\* An integer starting at the digit at index i (a leading 0 stands alone).
ParseNumber(s, i) ==
    LET j == IF s[i] = "0" THEN i + 1 ELSE SkipDigits(s, i)
    IN  ParseOk(PyNum(SubSeq(s, i, j - 1)), j)

RECURSIVE ParseValue(_, _)
RECURSIVE ParseElements(_, _, _)
RECURSIVE ParseMembers(_, _, _)

\* A value starting at index i (whitespace already skipped).
ParseValue(s, i) ==
    IF i > Len(s) THEN ParseFail
    ELSE IF s[i] = "\"" THEN ParseString(s, i)
    ELSE IF s[i] \in Digits THEN ParseNumber(s, i)
    ELSE IF s[i] = "[" THEN
        LET j == SkipWs(s, i + 1)
        IN  IF j <= Len(s) /\ s[j] = "]" THEN ParseOk(PyList(<<>>), j + 1)
            ELSE ParseElements(s, j, <<>>)
    ELSE IF s[i] = "{" THEN
        LET j == SkipWs(s, i + 1)
        IN  IF j <= Len(s) /\ s[j] = "}" THEN ParseOk(PyDict(EmptyDict), j + 1)
            ELSE ParseMembers(s, j, EmptyDict)
    ELSE IF StartsWith(s, i, <<"n", "u", "l", "l">>)
         THEN ParseOk(PyNone, i + 4)
    ELSE IF StartsWith(s, i, <<"t", "r", "u", "e">>)
         THEN ParseOk(PyLit("True"), i + 4)
    ELSE IF StartsWith(s, i, <<"f", "a", "l", "s", "e">>)
         THEN ParseOk(PyLit("False"), i + 5)
    ELSE ParseFail

\* The items of an array from index i on, acc holding the items read so far.
ParseElements(s, i, acc) ==
    LET r == ParseValue(s, i)
        j == SkipWs(s, r.next)
    IN  IF ~r.ok \/ j > Len(s) THEN ParseFail
        ELSE IF s[j] = "]" THEN ParseOk(PyList(Append(acc, r.val)), j + 1)
        ELSE IF s[j] = ","
             THEN ParseElements(s, SkipWs(s, j + 1), Append(acc, r.val))
        ELSE ParseFail

\* The members of an object from index i on; a repeated key keeps its last value.
ParseMembers(s, i, acc) ==
    IF i > Len(s) \/ s[i] # "\"" THEN ParseFail
    ELSE
        LET k == ParseString(s, i)
            c == SkipWs(s, k.next)
        IN  IF ~k.ok \/ c > Len(s) \/ s[c] # ":" THEN ParseFail
            ELSE
                LET r == ParseValue(s, SkipWs(s, c + 1))
                    j == SkipWs(s, r.next)
                    d == (k.val.val :> r.val) @@ acc
                IN  IF ~r.ok \/ j > Len(s) THEN ParseFail
                    ELSE IF s[j] = "}" THEN ParseOk(PyDict(d), j + 1)
                    ELSE IF s[j] = ","
                         THEN ParseMembers(s, SkipWs(s, j + 1), d)
                    ELSE ParseFail

\* json.loads(s): ok is FALSE where json.loads raises.
JsonLoads(s) ==
    LET r == ParseValue(s, SkipWs(s, 1))
    IN  IF r.ok /\ SkipWs(s, r.next) > Len(s) THEN r ELSE ParseFail


(***************************************************************************)
(* What the generation client may answer.                                  *)
(***************************************************************************)
Quoted(cs) == <<"\"">> \o cs \o <<"\"">>

Member(k, text) == Quoted(k) \o <<":">> \o text

\* An AnalysisResult as JSON text, its summary being the characters cs.
BatchJson(cs) ==
    <<"{">> \o Member(K_summary, Quoted(cs)) \o <<",">>
            \o Member(K_common_issues, <<"[">> \o Quoted(<<"a">>) \o <<"]">>)
            \o <<",">> \o Member(K_insights, <<"[", "]">>)
            \o <<",">> \o Member(K_recommendations, <<"[", "]">>) \o <<"}">>

\* A TicketInsight as JSON text, its response_suggestion being cs.
SingleJson(cs) ==
    <<"{">> \o Member(K_urgency, Quoted(<<"a">>)) \o <<",">>
            \o Member(K_category_suggestion, Quoted(<<"a">>)) \o <<",">>
            \o Member(K_response_suggestion, Quoted(cs)) \o <<",">>
            \o Member(K_related_improvements, <<"[", "]">>) \o <<"}">>

\* String contents: plain, holding a fence introducer, holding a bare fence.
PlainChars == <<"a">>

FenceJsonChars == <<"a", " ">> \o FenceJson \o <<" ", "b">>

FenceChars == <<"x", " ">> \o Backticks \o <<" ", "y">>

\* JSON texts of the two target shapes.
BatchShaped == {BatchJson(PlainChars), BatchJson(FenceChars)}

SingleShaped == {SingleJson(FenceJsonChars)}

\* J inside a fenced block: the introducer line, J, the closing fence line.
Fenced(J) == FenceJson \o <<"\n">> \o J \o <<"\n">> \o Backticks

\* JSON of another top-level type, an object without the fields, and prose.
MisShaped == {<<"[", "]">>, <<"{", "}">>}

Prose == {<<"o", "k">>}

GenTexts ==
    BatchShaped \cup SingleShaped
    \cup {Fenced(J) : J \in BatchShaped \cup SingleShaped}
    \cup MisShaped \cup Prose

\* str(e) of what the generation client raises.
GenErrors == {<<"q", "u", "o", "t", "a">>}

GenOutcomes ==
    [kind : {"text"}, text : GenTexts] \cup [kind : {"raise"}, text : GenErrors]

NoGen == [kind |-> "none", text |-> <<>>]

\* The inner try block of both analysis functions, clean then decode, for
\* every text the generation client may answer.
Extracted == [raw \in GenTexts |-> JsonLoads(CleanText(raw))]

Extract(raw) == Extracted[raw]

(***************************************************************************)
(* The analysis functions.  gen is the outcome of model.generate_content:  *)
(* [kind |-> "text", text |-> response.text] when it returns, and          *)
(* [kind |-> "raise", text |-> str(e)] when it raises.  An analysis result *)
(* is [raised, value]: raised says that an exception left the function.    *)
(***************************************************************************)
\* A str holding one literal of the source.
Lit(gloss) == PyStr(<<gloss>>)

Returned(v) == [raised |-> FALSE, value |-> v]

\* s[:n]
Prefix(s, n) == SubSeq(s, 1, IF Len(s) < n THEN Len(s) ELSE n)

\* The number of characters of the raw text the batch fallback keeps.
SummaryChars == 200

\* f"AI分析エラー: {str(e)}"
ErrorText(e) == PyStr(<<"AI analysis error: ">> \o e)

\* The return for an empty ticket list: "チケットがありません" and two lists.
BatchEmptyResult ==
    PyDict((K_summary :> Lit("(no tickets)"))
           @@ (K_insights :> PyList(<<>>))
           @@ (K_recommendations :> PyList(<<>>)))

\* The inner except: the first 200 characters of response.text and "...",
\* with ["分析中", "データ処理中"], ["AI分析を実行中です"], ["分析結果を確認中です"].
BatchParseFallback(raw) ==
    PyDict((K_summary :> PyStr(Prefix(raw, SummaryChars) \o <<".", ".", ".">>))
           @@ (K_common_issues
                 :> PyList(<<Lit("(analysing)"), Lit("(processing data)")>>))
           @@ (K_insights :> PyList(<<Lit("(AI analysis is running)")>>))
           @@ (K_recommendations
                 :> PyList(<<Lit("(checking the analysis result)")>>)))

\* The outer except: ["分析エラー"], ["AI分析が利用できません"],
\* ["手動での分析をお勧めします"].
BatchErrorFallback(e) ==
    PyDict((K_summary :> ErrorText(e))
           @@ (K_common_issues :> PyList(<<Lit("(analysis error)")>>))
           @@ (K_insights :> PyList(<<Lit("(AI analysis unavailable)")>>))
           @@ (K_recommendations
                 :> PyList(<<Lit("(manual analysis recommended)")>>)))

\* analyze_tickets_with_ai on a non-empty list, from the generation call on.
BatchAnalysis(gen) ==
    IF gen.kind = "raise" THEN Returned(BatchErrorFallback(gen.text))
    ELSE LET r == Extract(gen.text)
         IN  Returned(IF r.ok THEN r.val ELSE BatchParseFallback(gen.text))

\* The inner except: urgency "中", the ticket's category,
\* "詳細を確認して適切に対応してください。" and two fixed improvements.
SingleParseFallback(ticket) ==
    PyDict((K_urgency :> Lit("(medium)"))
           @@ (K_category_suggestion :> Lit(ticket.category))
           @@ (K_response_suggestion :> Lit("(check the details and respond)"))
           @@ (K_related_improvements
                 :> PyList(<<Lit("(improve the user guide)"),
                             Lit("(review the error messages)")>>)))

\* The outer except: urgency "不明", "分析エラー", the error text,
\* ["手動分析が必要です"].
SingleErrorFallback(e) ==
    PyDict((K_urgency :> Lit("(unknown)"))
           @@ (K_category_suggestion :> Lit("(analysis error)"))
           @@ (K_response_suggestion :> ErrorText(e))
           @@ (K_related_improvements
                 :> PyList(<<Lit("(manual analysis needed)")>>)))

\* As SingleAnalysis, without the outer except: the exception leaves.
SinglePropagates(ticket, gen) ==
    IF gen.kind = "raise" THEN [raised |-> TRUE, value |-> PyNone]
    ELSE LET r == Extract(gen.text)
         IN  Returned(IF r.ok THEN r.val ELSE SingleParseFallback(ticket))

\* analyze_single_ticket, from the generation call on.
SingleAnalysis(ticket, gen) ==
    IF gen.kind = "raise" THEN Returned(SingleErrorFallback(gen.text))
    ELSE LET r == Extract(gen.text)
         IN  Returned(IF r.ok THEN r.val ELSE SingleParseFallback(ticket))

(***************************************************************************)
(* The store and the requests.                                             *)
(*                                                                         *)
(* A document keeps the fields a handler reads back: ticket_id, category,  *)
(* status, created_at and responses.  user_id, email, subject, message and *)
(* analysis_id only reach the prompt, and updated_at is only ever written. *)
(***************************************************************************)
Workers == 1..NumWorkers

\* The values uuid4() returns, in the order it returns them.
Uuids == 1..MaxUuid

\* The ticket_id of a request path: a uuid, or 0, an id uuid4() never returns.
PathIds == 0..MaxUuid

Categories == {"general", "billing"}

\* Python's None where a str is expected.
None == "<None>"

\* The JSON bodies of a respond request.
Bodies ==
    { ("message" :> "hi"),
      ("message" :> "hi") @@ ("responder" :> "bob"),
      ("message" :> "hi") @@ ("status" :> "closed"),
      ("message" :> "hi") @@ ("status" :> ""),
      ("message" :> "hi") @@ ("status" :> None) }

\* dict.get(k, default)
DictGet(d, k, default) == IF k \in DOMAIN d THEN d[k] ELSE default

VARIABLES
    store,      \* the collection support_tickets: ticket id -> document
    nextUuid,   \* the next value uuid4() returns
    pc,         \* per worker: where its request stands
    local,      \* per worker: the ticket_id and ticket_data of its request
    stalled,    \* per worker: its generation call never returns
    reply,      \* the HTTP reply the last step sent, if it sent one
    acked       \* <<ticket id, response id>> of every respond answered 200

vars == <<store, nextUuid, pc, local, stalled, reply, acked>>

NoTicket ==
    [ticket_id |-> 0, category |-> "", status |-> "", created_at |-> 0,
     responses |-> <<>>]

NoLocal == [ticket_id |-> 0, ticket_data |-> NoTicket]

\* A reply: the handler, the HTTP status, what decided it, and what it carries.
Reply(op, status, cause) ==
    [op |-> op, status |-> status, cause |-> cause, ticket_id |-> 0,
     total |-> 0, calls |-> 0, gen |-> NoGen, result |-> PyNone]

\* No reply: the step sent none (the request goes on).
NoReply == Reply("none", 0, "none")

\* str(uuid.uuid4()): a value no earlier call returned.
uuid4 == nextUuid

\* The uuids not yet drawn, less those the respond requests under way will draw.
UuidsLeft ==
    MaxUuid - (nextUuid - 1) - Cardinality({w \in Workers : pc[w] = "respond"})

\* datetime.now(timezone.utc) at a create: one tick per document written.
Now == Cardinality(DOMAIN store) + 1

\* document(id).set(data)
DocSet(id, data) ==
    [i \in DOMAIN store \cup {id} |-> IF i = id THEN data ELSE store[i]]

\* document(id).update(data): every field of data overwrites the stored one.
DocUpdate(id, data) == [store EXCEPT ![id] = data]

\* except Exception as e: raise HTTPException(500, ...): whatever is raised
\* inside a handler's try, an HTTPException(404) included, leaves as a 500.
ExceptException(raised) == 500

\* As TicketData, the status left empty.
TicketDataNoStatus(id, cat) ==
    [ticket_id |-> id, category |-> cat, status |-> "", created_at |-> Now,
     responses |-> <<>>]

\* ticket_data of create_ticket.
TicketData(id, cat) ==
    [ticket_id |-> id, category |-> cat, status |-> "open", created_at |-> Now,
     responses |-> <<>>]

\* POST /api/tickets
create_ticket(w, cat) ==
    /\ pc[w] = "idle"
    /\ UuidsLeft > 0
    /\ nextUuid' = nextUuid + 1
    /\ \E stored \in BOOLEAN :
         IF stored
         THEN /\ store' = DocSet(uuid4, TicketData(uuid4, cat))
              /\ reply' = [Reply("create", 200, "ok") EXCEPT !.ticket_id = uuid4]
         ELSE /\ store' = store
              /\ reply' = Reply("create", ExceptException(0), "store_error")
    /\ UNCHANGED <<pc, local, stalled, acked>>

\* The reads of a handler that starts with document(ticket_id).get(): the
\* store raises, the document is absent (HTTPException(404) raised inside the
\* try), or the handler goes on to state next with the document.
GetTicket(w, op, id, next) ==
    /\ pc[w] = "idle"
    /\ \E read \in BOOLEAN :
         IF ~read
         THEN /\ reply' = Reply(op, ExceptException(0), "store_error")
              /\ UNCHANGED <<pc, local>>
         ELSE IF id \notin DOMAIN store
         THEN /\ reply' = Reply(op, ExceptException(404), "not_found")
              /\ UNCHANGED <<pc, local>>
         ELSE /\ pc' = [pc EXCEPT ![w] = next]
              /\ local' = [local EXCEPT
                             ![w] = [ticket_id |-> id, ticket_data |-> store[id]]]
              /\ reply' = NoReply

\* As ResponsesAppend, the list replaced by the new entry alone.
ResponsesReplaced(responses, new_response) == <<new_response>>

\* ticket_data["responses"].append(new_response)
ResponsesAppend(responses, new_response) == Append(responses, new_response)

\* POST /admin/ticket/{ticket_id}/respond, up to doc_ref.get()
respond_to_ticket_get(w, id) ==
    /\ UuidsLeft > 0
    /\ GetTicket(w, "respond", id, "respond")
    /\ UNCHANGED <<store, nextUuid, stalled, acked>>

\* POST /admin/ticket/{ticket_id}/respond, from new_response to the reply
respond_to_ticket_update(w, body) ==
    /\ pc[w] = "respond"
    /\ LET id == local[w].ticket_id
           ticket_data == local[w].ticket_data
           new_response ==
               [id |-> uuid4,
                message |-> DictGet(body, "message", None),
                responder |-> DictGet(body, "responder", "admin")]
           updated ==
               [ticket_data EXCEPT
                  !.responses = ResponsesAppend(@, new_response),
                  !.status = DictGet(body, "status", ticket_data.status)]
       IN  /\ nextUuid' = nextUuid + 1
           /\ \E stored \in BOOLEAN :
                IF stored
                THEN /\ store' = DocUpdate(id, updated)
                     /\ reply' = Reply("respond", 200, "ok")
                     /\ acked' = acked \cup {<<id, uuid4>>}
                ELSE /\ reply' = Reply("respond", ExceptException(0), "store_error")
                     /\ UNCHANGED <<store, acked>>
    /\ pc' = [pc EXCEPT ![w] = "idle"]
    /\ local' = [local EXCEPT ![w] = NoLocal]
    /\ UNCHANGED stalled

\* GET /admin/ticket/{ticket_id}, up to the generation call
ticket_detail(w, id) ==
    /\ GetTicket(w, "detail", id, "gen_single")
    /\ UNCHANGED <<store, nextUuid, stalled, acked>>

\* GET /admin/ticket/{ticket_id}, from the generation client's answer on
analyze_single_ticket(w, gen) ==
    /\ pc[w] = "gen_single"
    /\ ~stalled[w]
    /\ LET ai_insight == SingleAnalysis(local[w].ticket_data, gen)
       IN  reply' =
             IF ai_insight.raised
             THEN [Reply("detail", ExceptException(0), "generation") EXCEPT
                     !.calls = 1, !.gen = gen]
             ELSE [Reply("detail", 200, "ok") EXCEPT
                     !.calls = 1, !.gen = gen, !.result = ai_insight.value]
    /\ pc' = [pc EXCEPT ![w] = "idle"]
    /\ local' = [local EXCEPT ![w] = NoLocal]
    /\ UNCHANGED <<store, nextUuid, stalled, acked>>

\* The number of documents a dashboard query returns at most.
ListLimit == 50

\* order_by("created_at", DESCENDING) over the documents ds.
RECURSIVE OrderByCreatedDesc(_)
OrderByCreatedDesc(ds) ==
    IF ds = {} THEN <<>>
    ELSE LET d == CHOOSE x \in ds : \A y \in ds : y.created_at <= x.created_at
         IN  <<d>> \o OrderByCreatedDesc(ds \ {d})

\* ticket_list of admin_dashboard
TicketList ==
    Prefix(OrderByCreatedDesc({store[i] : i \in DOMAIN store}), ListLimit)

\* GET /admin, up to the generation call; an empty list is answered at once.
admin_dashboard(w) ==
    /\ pc[w] = "idle"
    /\ \E read \in BOOLEAN :
         IF ~read
         THEN /\ reply' = Reply("dashboard", ExceptException(0), "store_error")
              /\ UNCHANGED pc
         ELSE IF TicketList = <<>>
         THEN /\ reply' = [Reply("dashboard", 200, "ok") EXCEPT
                             !.result = BatchEmptyResult]
              /\ UNCHANGED pc
         ELSE /\ pc' = [pc EXCEPT ![w] = "gen_batch"]
              /\ reply' = NoReply
    /\ UNCHANGED <<store, nextUuid, local, stalled, acked>>

\* GET /admin, from the generation client's answer on
analyze_tickets_with_ai(w, gen) ==
    /\ pc[w] = "gen_batch"
    /\ ~stalled[w]
    /\ LET analysis == BatchAnalysis(gen)
       IN  reply' =
             IF analysis.raised
             THEN [Reply("dashboard", ExceptException(0), "generation") EXCEPT
                     !.total = Len(TicketList), !.calls = 1, !.gen = gen]
             ELSE [Reply("dashboard", 200, "ok") EXCEPT
                     !.total = Len(TicketList), !.calls = 1, !.gen = gen,
                     !.result = analysis.value]
    /\ pc' = [pc EXCEPT ![w] = "idle"]
    /\ UNCHANGED <<store, nextUuid, local, stalled, acked>>

Init ==
    /\ store = [i \in {} |-> NoTicket]
    /\ nextUuid = 1
    /\ pc = [w \in Workers |-> "idle"]
    /\ local = [w \in Workers |-> NoLocal]
    /\ stalled = [w \in Workers |-> FALSE]
    /\ reply = NoReply
    /\ acked = {}

\* One step of the request worker w serves.
Handler(w) ==
    \/ \E cat \in Categories : create_ticket(w, cat)
    \/ \E id \in PathIds : respond_to_ticket_get(w, id)
    \/ \E body \in Bodies : respond_to_ticket_update(w, body)
    \/ \E id \in PathIds : ticket_detail(w, id)
    \/ \E gen \in GenOutcomes : analyze_single_ticket(w, gen)
    \/ admin_dashboard(w)
    \/ \E gen \in GenOutcomes : analyze_tickets_with_ai(w, gen)

\* Workers serve requests concurrently against the one store.
Next == \E w \in Workers : Handler(w)

Spec == Init /\ [][Next]_vars

\* No request of another worker is under way.
Alone(w) == \A v \in Workers \ {w} : pc[v] = "idle"

\* Sequential use: a worker takes a step only while no other request is under
\* way, so each request runs from its first step to its reply by itself.
NextSeq ==
    \E w \in Workers :
        \/ Alone(w) /\ \E cat \in Categories : create_ticket(w, cat)
        \/ Alone(w) /\ \E id \in PathIds : respond_to_ticket_get(w, id)
        \/ Alone(w) /\ \E body \in Bodies : respond_to_ticket_update(w, body)
        \/ Alone(w) /\ \E id \in PathIds : ticket_detail(w, id)
        \/ Alone(w) /\ \E gen \in GenOutcomes : analyze_single_ticket(w, gen)
        \/ Alone(w) /\ admin_dashboard(w)
        \/ Alone(w) /\ \E gen \in GenOutcomes : analyze_tickets_with_ai(w, gen)

SpecSeq == Init /\ [][NextSeq]_vars

\* model.generate_content(prompt) neither returns nor raises: the call is
\* synchronous and carries no timeout, so the worker waits on it for good.
generate_content_stalls(w) ==
    /\ pc[w] \in {"gen_single", "gen_batch"}
    /\ ~stalled[w]
    /\ stalled' = [stalled EXCEPT ![w] = TRUE]
    /\ reply' = NoReply
    /\ UNCHANGED <<store, nextUuid, pc, local, acked>>

NextLive == Next \/ \E w \in Workers : generate_content_stalls(w)

\* Liveness: a handler that can take a step takes it (a worker runs its
\* request to the end); the generation client alone may fail to answer.
LiveSpec ==
    Init /\ [][NextLive]_vars /\ \A w \in Workers : WF_vars(Handler(w))

(***************************************************************************)
(* The claims.                                                             *)
(***************************************************************************)
\* The ids of the responses stored for ticket t.
ResponseIds(t) == {store[t].responses[i].id : i \in DOMAIN store[t].responses}

\* s holds e as a contiguous part.
Embeds(s, e) == \E i \in 1..Len(s) : StartsWith(s, i, e)

\* p is an initial part of q.
IsPrefix(p, q) == Len(p) <= Len(q) /\ SubSeq(q, 1, Len(p)) = p

\* C1: under any interleaving of respond requests on one ticket, every
\* request answered 200 has its entry in the stored responses of the ticket,
\* so the responses number as many as the requests answered 200.
NoLostResponse ==
    \A t \in DOMAIN store :
        /\ \A a \in acked : a[1] = t => a[2] \in ResponseIds(t)
        /\ Len(store[t].responses) = Cardinality({a \in acked : a[1] = t})

\* C2: a detail or respond request for a ticket id without a document is
\* answered 404, and no other error status.
MissingTicketAnswers404 ==
    (reply.op \in {"detail", "respond"} /\ reply.cause = "not_found")
        => reply.status = 404

\* C3: a create answered 200 returns an id no stored ticket has, writes
\* exactly one new document under it, with status "open" and no responses,
\* and leaves every other document as it was.
CreateWritesOneFreshOpenTicket ==
    [][(reply'.op = "create" /\ reply'.status = 200 /\ reply' # reply)
         => LET id == reply'.ticket_id
            IN  /\ id \notin DOMAIN store
                /\ DOMAIN store' = DOMAIN store \cup {id}
                /\ store'[id].status = "open"
                /\ store'[id].responses = <<>>
                /\ \A t \in DOMAIN store : store'[t] = store[t]]_vars

\* C3 witness: a third uuid went to a ticket created after another ticket had
\* received a response.
CreatedBesideAnsweredTicket ==
    /\ reply.op = "create" /\ reply.status = 200
    /\ reply.ticket_id \in DOMAIN store
    /\ store[reply.ticket_id].status = "open"
    /\ \E t \in DOMAIN store : t # reply.ticket_id /\ store[t].responses # <<>>

\* C4: under sequential use the responses of a ticket number as many as the
\* respond requests answered 200 on it, a respond adds its entry at the end,
\* and every step leaves the entries already stored in place and unaltered.
ResponsesAppendOnly ==
    [][\A t \in DOMAIN store' :
         /\ Len(store'[t].responses) = Cardinality({a \in acked' : a[1] = t})
         /\ t \in DOMAIN store =>
              /\ IsPrefix(store[t].responses, store'[t].responses)
              /\ Len(store'[t].responses) <= Len(store[t].responses) + 1
              /\ \A a \in acked' \ acked :
                   a[1] = t =>
                     store'[t].responses[Len(store'[t].responses)].id = a[2]]_vars

\* C4 witness: two sequential responds were answered 200 on one ticket.
TwoSequentialResponses ==
    \E t \in DOMAIN store :
        /\ Len(store[t].responses) = 2
        /\ Cardinality({a \in acked : a[1] = t}) = 2
        /\ reply.op = "respond" /\ reply.status = 200

\* C5: the status of every stored ticket is a non-empty string.
StatusNonEmpty == \A t \in DOMAIN store : store[t].status \notin {"", None}

\* C6: when the generation client raises, the dashboard and the detail page
\* are still answered 200, with the fallback that embeds the error text
\* (urgency unknown for a single ticket); no analysis reply is an HTTP error
\* on account of the generation client.
GenerationFailureAbsorbed ==
    /\ reply.cause # "generation"
    /\ reply.gen.kind = "raise" =>
         /\ reply.status = 200
         /\ reply.result.type = "dict"
         /\ reply.op = "detail" =>
              /\ DOMAIN reply.result.val = SingleKeys
              /\ reply.result.val[K_urgency] = PyStr(<<"(unknown)">>)
              /\ Embeds(reply.result.val[K_response_suggestion].val,
                        reply.gen.text)
         /\ reply.op = "dashboard" =>
              /\ DOMAIN reply.result.val = BatchKeys
              /\ Embeds(reply.result.val[K_summary].val, reply.gen.text)

\* C6 witness: a detail page was rendered though the generation client raised.
DetailRenderedAfterRaise ==
    reply.op = "detail" /\ reply.gen.kind = "raise" /\ reply.calls = 1

\* C7: the dashboard over no tickets calls the generation client zero times
\* and returns the no-tickets summary with each of the three lists of an
\* AnalysisResult empty; over any tickets it calls the client exactly once.
EmptyBatchSkipsGeneration ==
    (reply.op = "dashboard" /\ reply.status = 200) =>
        IF reply.total = 0
        THEN /\ reply.calls = 0
             /\ reply.result.type = "dict"
             /\ DOMAIN reply.result.val = BatchKeys
             /\ reply.result.val[K_summary] = PyStr(<<"(no tickets)">>)
             /\ \A k \in BatchKeys \ {K_summary} :
                    reply.result.val[k] = PyList(<<>>)
        ELSE reply.calls = 1

\* C8: whatever text the generation client returns, the analysis result is a
\* dict holding every field of its target shape.
AnalysisWellFormed ==
    (reply.gen.kind = "text" /\ reply.status = 200) =>
        /\ reply.result.type = "dict"
        /\ reply.op = "dashboard" => BatchKeys \subseteq DOMAIN reply.result.val
        /\ reply.op = "detail" => SingleKeys \subseteq DOMAIN reply.result.val

\* C9: for a JSON text J of a target shape, also one whose strings hold
\* backticks or the word json, the fenced J is cleaned to J itself (only the
\* introducer and the closing fence line go), it decodes as the unfenced J
\* does, and the analysis returns the value J denotes.
FenceStrippingTransparent ==
    \A J \in BatchShaped \cup SingleShaped :
        reply.gen = [kind |-> "text", text |-> Fenced(J)] =>
            /\ Extract(Fenced(J)) = Extract(J)
            /\ CleanText(Fenced(J)) = J
            /\ reply.result = JsonLoads(J).val

\* C10: a request waiting on the generation client is answered in the end.
GenerationCallCompletes ==
    \A w \in Workers : (pc[w] \in {"gen_single", "gen_batch"}) ~> (pc[w] = "idle")

=============================================================================
